---- MODULE Spec2Model ----
(***************************************************************************)
(* Model of package alexa: the request envelope (request.go) with its      *)
(* getTypedRequest and verifyTimestamp methods, and the AudioPlayer        *)
(* directive builders of a Response (audioplayer.go).                      *)
(*                                                                         *)
(* Go values are modelled as follows.  A struct is a function from its Go  *)
(* field names to values; string, int and bool are TLA+ strings, integers  *)
(* and booleans; a pointer is an address (a string, "nil" for the nil      *)
(* pointer) into a memory that maps addresses to values; an interface{}    *)
(* holding decoded JSON, and JSON text itself, are tagged records.         *)
(***************************************************************************)
EXTENDS Integers, Sequences, FiniteSets, TLC

\* bound of the model: the objects the builders allocate on one Response
\* (directives and metadata objects)
MaxObjects == 3

VARIABLES
    \* ---- request side (request.go) ----
    requestEnvelope,   \* the RequestEnvelope: Version, Session, Context, Request
    envelope0,         \* the envelope as it was handed to this core
    requestObj,        \* the target of the last getTypedRequest call
    newObjs,           \* objects the JSON decoder allocated behind nil pointers
    decodeCall,        \* outcome of the last getTypedRequest call
    freshCall,         \* outcome of the last verifyTimestamp call
    \* ---- response side (audioplayer.go) ----
    directives,        \* Response.Directives: the pointers appended, in order
    heap,              \* the directive and metadata objects the builders allocated
    logged,            \* number of lines the builders wrote to the log
    calls,             \* the add calls made on the Response, with what they returned
    metadataCalls      \* the SetAudioItemMetadata calls made, with what they returned

reqVars  == <<requestEnvelope, envelope0, requestObj, newObjs, decodeCall, freshCall>>
respVars == <<directives, heap, logged, calls, metadataCalls>>
vars     == <<requestEnvelope, envelope0, requestObj, newObjs, decodeCall, freshCall,
              directives, heap, logged, calls, metadataCalls>>

(***************************************************************************)
(* JSON values: what encoding/json stores into an interface{} and what     *)
(* json.Marshal writes.                                                    *)
(***************************************************************************)
Null      == [k |-> "null"]
Str(s)    == [k |-> "string", s |-> s]
Num(n)    == [k |-> "number", n |-> n, integral |-> TRUE]
Frac(n)   == [k |-> "number", n |-> n, integral |-> FALSE]  \* n + 0.5
Bool(b)   == [k |-> "bool", b |-> b]
Obj(o)    == [k |-> "object", o |-> o]
Arr       == [k |-> "array"]
\* a Go value json.Marshal rejects (a channel, a func, a NaN float)
Chan      == [k |-> "chan"]
NoKeys    == [key \in {} |-> Null]

(***************************************************************************)
(* The struct types of request.go and audioplayer.go.  A field is its Go   *)
(* name, the key encoding/json reads it from (the json tag, or the Go name *)
(* when the field has no tag) and its type.  The fields of an embedded     *)
(* struct are promoted, so every request variant lists CommonRequest's.    *)
(***************************************************************************)
F(go, json, type) == [go |-> go, json |-> json, type |-> type]

CommonRequestFields ==
    << F("Type", "type", "string"), F("RequestID", "requestId", "string"),
       F("Timestamp", "timestamp", "string"), F("Locale", "locale", "string"),
       F("Session", "Session", "*Session"), F("Context", "Context", "*Context") >>

AudioPlayerRequestFields ==
    CommonRequestFields \o
    << F("Token", "token", "string"),
       F("OffsetInMilliseconds", "offsetInMilliseconds", "int") >>

Fields ==
    [ Session |->
        << F("New", "new", "bool"), F("SessionID", "sessionId", "string"),
           F("Attributes", "attributes", "map[string]interface{}"),
           F("Application", "application", "Application"),
           F("User", "user", "User") >>,
      Application |-> << F("ApplicationID", "applicationId", "string") >>,
      User |->
        << F("UserID", "userId", "string"),
           F("AccessToken", "accessToken", "string") >>,
      Context |->
        << F("System", "System", "System"),
           F("AudioPlayer", "audioPlayer", "AudioPlayer") >>,
      System |->
        << F("APIAccessToken", "apiAccessToken", "string"),
           F("APIEndpoint", "apiEndpoint", "string"),
           F("Application", "application", "Application"),
           F("Device", "device", "Device"), F("User", "user", "User") >>,
      Device |->
        << F("DeviceID", "deviceId", "string"),
           F("SupportedInterfaces", "supportedInterfaces", "map[string]interface{}") >>,
      AudioPlayer |->
        << F("Token", "token", "string"),
           F("OffsetInMilliseconds", "offsetInMilliseconds", "int"),
           F("PlayerActivity", "playerActivity", "string") >>,
      CommonRequest |-> CommonRequestFields,
      LaunchRequest |-> CommonRequestFields,
      IntentRequest |->
        CommonRequestFields \o
        << F("Intent", "intent", "Intent"),
           F("DialogState", "dialogState", "string") >>,
      Intent |->
        << F("Name", "name", "string"),
           F("Slots", "slots", "map[string]IntentSlot"),
           F("ConfirmationStatus", "confirmationStatus", "string") >>,
      IntentSlot |->
        << F("Name", "name", "string"), F("Value", "value", "string"),
           F("ConfirmationStatus", "confirmationStatus", "string"),
           F("Resolutions", "resolutions", "interface{}") >>,
      SessionEndedRequest |->
        CommonRequestFields \o
        << F("Reason", "reason", "string"), F("Error", "error", "ErrorStruct") >>,
      \* the anonymous struct types of the Error and Cause fields
      ErrorStruct |->
        << F("Type", "type", "string"), F("Message", "message", "string") >>,
      SystemExceptionEncounteredRequest |->
        CommonRequestFields \o
        << F("Error", "error", "ErrorStruct"), F("Cause", "cause", "CauseStruct") >>,
      CauseStruct |-> << F("RequestID", "requestId", "string") >>,
      AudioPlayerRequest |-> AudioPlayerRequestFields,
      AudioPlayerPlaybackFailedRequest |->
        AudioPlayerRequestFields \o
        << F("Error", "error", "ErrorStruct"),
           F("CurrentPlaybackState", "currentPlaybackState", "AudioPlayer") >> ]

\* the request variants: the struct types that embed CommonRequest
RequestVariants ==
    { "LaunchRequest", "IntentRequest", "SessionEndedRequest",
      "SystemExceptionEncounteredRequest", "AudioPlayerRequest",
      "AudioPlayerPlaybackFailedRequest" }

Kind(t) ==
    CASE t \in {"string", "int", "bool"} -> t
      [] t = "interface{}" -> "interface"
      [] t \in {"map[string]interface{}", "map[string]IntentSlot"} -> "map"
      [] t \in {"*Session", "*Context"} -> "ptr"
      [] OTHER -> "struct"

\* the element type of a pointer or map type
Elem(t) ==
    CASE t = "*Session" -> "Session"
      [] t = "*Context" -> "Context"
      [] t = "map[string]interface{}" -> "interface{}"
      [] t = "map[string]IntentSlot" -> "IntentSlot"

GoNames(t) == { Fields[t][i].go : i \in DOMAIN Fields[t] }
FieldNamed(t, go) ==
    Fields[t][CHOOSE i \in DOMAIN Fields[t] : Fields[t][i].go = go]

\* Go maps: the nil map, or a map with its entries
NilMap    == [k |-> "nilmap"]
MapOf(m)  == [k |-> "map", m |-> m]

\* the zero value of a Go type
RECURSIVE Zero(_)
Zero(t) ==
    CASE Kind(t) = "string" -> ""
      [] Kind(t) = "int" -> 0
      [] Kind(t) = "bool" -> FALSE
      [] Kind(t) = "interface" -> Null
      [] Kind(t) = "map" -> NilMap
      [] Kind(t) = "ptr" -> "nil"
      [] Kind(t) = "struct" -> [go \in GoNames(t) |-> Zero(FieldNamed(t, go).type)]

(***************************************************************************)
(* json.Marshal of the untyped Request payload.  A map is written as its   *)
(* members in the byte order of their keys; KeyOrder lists, in that order, *)
(* every key the model's payloads use.  Marshal fails on a value JSON      *)
(* cannot express, and then returns no data.                               *)
(***************************************************************************)
KeyOrder ==
    <<"Context", "Session", "System", "accessToken", "apiAccessToken",
      "apiEndpoint", "application", "applicationId", "attributes", "audioPlayer",
      "cause", "confirmationStatus", "context", "currentPlaybackState", "device",
      "deviceId", "dialogState", "error", "extra", "intent", "k", "locale",
      "message", "name", "new", "offsetInMilliseconds", "playerActivity",
      "reason", "requestId", "resolutions", "session", "sessionId", "slots",
      "song", "supportedInterfaces", "timestamp", "token", "type", "user",
      "userId", "value">>

SortedKeys(o) == SelectSeq(KeyOrder, LAMBDA key : key \in DOMAIN o)

RECURSIVE Marshal(_)
RECURSIVE MarshalMembers(_, _)
Marshal(v) ==
    CASE v.k = "object" ->
           [k |-> "object", members |-> MarshalMembers(v.o, SortedKeys(v.o))]
      [] v.k = "chan" -> [k |-> "empty"]
      [] OTHER -> v

\* the members of map o, in the order keys
MarshalMembers(o, keys) ==
    [i \in DOMAIN keys |-> [key |-> keys[i], val |-> Marshal(o[keys[i]])]]

\* the value encoding/json stores into an interface{} for JSON text d
RECURSIVE ToInterface(_)
ToInterface(d) ==
    IF d.k = "object"
    THEN Obj([key \in {d.members[i].key : i \in DOMAIN d.members} |->
               ToInterface(d.members[CHOOSE i \in DOMAIN d.members :
                                       /\ d.members[i].key = key
                                       /\ \A j \in DOMAIN d.members :
                                            d.members[j].key = key => j <= i].val)])
    ELSE d

(***************************************************************************)
(* json.Unmarshal.  A JSON key selects the struct field whose name equals  *)
(* it, or else the field whose name equals it ignoring case.  Lower gives  *)
(* the lower-case spelling of the keys and field names of the model.       *)
(***************************************************************************)
Lower(key) ==
    CASE key = "Context" -> "context"
      [] key = "Session" -> "session"
      [] key = "System" -> "system"
      [] key = "accessToken" -> "accesstoken"
      [] key = "apiAccessToken" -> "apiaccesstoken"
      [] key = "apiEndpoint" -> "apiendpoint"
      [] key = "applicationId" -> "applicationid"
      [] key = "audioPlayer" -> "audioplayer"
      [] key = "confirmationStatus" -> "confirmationstatus"
      [] key = "currentPlaybackState" -> "currentplaybackstate"
      [] key = "deviceId" -> "deviceid"
      [] key = "dialogState" -> "dialogstate"
      [] key = "offsetInMilliseconds" -> "offsetinmilliseconds"
      [] key = "playerActivity" -> "playeractivity"
      [] key = "requestId" -> "requestid"
      [] key = "sessionId" -> "sessionid"
      [] key = "supportedInterfaces" -> "supportedinterfaces"
      [] key = "userId" -> "userid"
      [] OTHER -> key

MinOf(S) == CHOOSE i \in S : \A j \in S : i <= j

\* the index in Fields[t] of the field that JSON key `key` is decoded into, 0 if none
FieldIndex(t, key) ==
    LET fs    == Fields[t]
        exact == { i \in DOMAIN fs : fs[i].json = key }
        fold  == { i \in DOMAIN fs : Lower(fs[i].json) = Lower(key) }
    IN  IF exact # {} THEN MinOf(exact)
        ELSE IF fold # {} THEN MinOf(fold)
        ELSE 0

\* the object the decoder allocates behind a nil pointer of type t
NewAddr(t) ==
    CASE t = "*Session" -> "new(Session)"
      [] t = "*Context" -> "new(Context)"

(***************************************************************************)
(* DecodeValue(d, t, cur, st) decodes JSON text d into a location of Go    *)
(* type t that holds cur.  st is the decoder's state: mem, the memory      *)
(* behind the pointers, and err, whether an UnmarshalTypeError was saved   *)
(* (the decoder saves the first one and goes on).  The result is the new   *)
(* value of the location and the new state.                                *)
(***************************************************************************)
RECURSIVE DecodeValue(_, _, _, _)
RECURSIVE DecodeMembers(_, _, _, _, _)
RECURSIVE DecodeMapMembers(_, _, _, _, _)

DecodeValue(d, t, cur, st) ==
    LET kind == Kind(t)
        keep == [val |-> cur, st |-> st]
        bad  == [val |-> cur, st |-> [st EXCEPT !.err = TRUE]]
    IN
    IF kind = "ptr" THEN
        IF d.k = "null" THEN [val |-> "nil", st |-> st]
        ELSE LET addr == IF cur = "nil" THEN NewAddr(t) ELSE cur
                 st1  == IF cur = "nil"
                         THEN [st EXCEPT !.mem[addr] = Zero(Elem(t))]
                         ELSE st
                 r    == DecodeValue(d, Elem(t), st1.mem[addr], st1)
             IN  [val |-> addr, st |-> [r.st EXCEPT !.mem[addr] = r.val]]
    ELSE IF d.k = "null" THEN
        IF kind \in {"interface", "map"} THEN [val |-> Zero(t), st |-> st] ELSE keep
    ELSE IF kind = "interface" THEN [val |-> ToInterface(d), st |-> st]
    ELSE IF d.k = "string" THEN
        IF kind = "string" THEN [val |-> d.s, st |-> st] ELSE bad
    ELSE IF d.k = "number" THEN
        IF kind = "int" /\ d.integral THEN [val |-> d.n, st |-> st] ELSE bad
    ELSE IF d.k = "bool" THEN
        IF kind = "bool" THEN [val |-> d.b, st |-> st] ELSE bad
    ELSE IF d.k = "object" THEN
        IF kind = "struct" THEN DecodeMembers(d.members, 1, t, cur, st)
        ELSE IF kind = "map"
        THEN DecodeMapMembers(d.members, 1, t,
                              IF cur = NilMap THEN MapOf(NoKeys) ELSE cur, st)
        ELSE bad
    ELSE bad

\* the members of a JSON object, from the i-th on, into struct cur of type t
DecodeMembers(members, i, t, cur, st) ==
    IF i > Len(members) THEN [val |-> cur, st |-> st]
    ELSE LET fi == FieldIndex(t, members[i].key) IN
         IF fi = 0 THEN DecodeMembers(members, i + 1, t, cur, st)
         ELSE LET f == Fields[t][fi]
                  r == DecodeValue(members[i].val, f.type, cur[f.go], st)
              IN  DecodeMembers(members, i + 1, t,
                                [cur EXCEPT ![f.go] = r.val], r.st)

\* the members of a JSON object, from the i-th on, into map cur of type t
DecodeMapMembers(members, i, t, cur, st) ==
    IF i > Len(members) THEN [val |-> cur, st |-> st]
    ELSE LET r == DecodeValue(members[i].val, Elem(t), Zero(Elem(t)), st)
             m == [key \in DOMAIN cur.m \cup {members[i].key} |->
                     IF key = members[i].key THEN r.val ELSE cur.m[key]]
         IN  DecodeMapMembers(members, i + 1, t, MapOf(m), r.st)

(***************************************************************************)
(* json.Unmarshal(data, &requestObj), requestObj an interface{} holding a  *)
(* non-nil pointer to a struct of type t with value obj.  No data is a     *)
(* syntax error, found before anything is stored.  The text null sets the  *)
(* callee's own interface variable to nil and stores nothing.  Any other   *)
(* text is decoded into the struct behind the pointer.                     *)
(***************************************************************************)
Unmarshal(data, t, obj, mem) ==
    IF data.k = "empty" THEN [err |-> "SyntaxError", obj |-> obj, mem |-> mem]
    ELSE IF data.k = "null" THEN [err |-> "", obj |-> obj, mem |-> mem]
    ELSE LET r == DecodeValue(data, t, obj, [mem |-> mem, err |-> FALSE])
         IN  [err |-> IF r.st.err THEN "UnmarshalTypeError" ELSE "",
              obj |-> r.val, mem |-> r.st.mem]

(***************************************************************************)
(* Time.  A time.Time is the day number since 1970-01-01 (UTC) and the     *)
(* millisecond of the day; a time.Duration is days and milliseconds of a   *)
(* day too, the milliseconds in 0 .. MsPerDay - 1.                         *)
(***************************************************************************)
MsPerDay == 24 * 60 * 60 * 1000

T(days, ms) == [days |-> days, ms |-> ms]

\* a < b, for two times or two durations
Before(a, b) == a.days < b.days \/ (a.days = b.days /\ a.ms < b.ms)

\* the largest and the smallest time.Duration: 2^63 - 1 and -2^63 nanoseconds
MaxDuration == T(106751, 85636854)
MinDuration == T(-106752, 763145)

\* the characters of the strings that the model's payloads carry as timestamp
Chars(s) ==
    CASE s = "2026-11-03T23:59:41Z" ->
           <<"2", "0", "2", "6", "-", "1", "1", "-", "0", "3", "T", "2", "3", ":", "5", "9", ":", "4", "1", "Z">>
      [] s = "2026-11-03T23:59:40Z" ->
           <<"2", "0", "2", "6", "-", "1", "1", "-", "0", "3", "T", "2", "3", ":", "5", "9", ":", "4", "0", "Z">>
      [] s = "2026-11-03T23:59:39Z" ->
           <<"2", "0", "2", "6", "-", "1", "1", "-", "0", "3", "T", "2", "3", ":", "5", "9", ":", "3", "9", "Z">>
      [] s = "2026-11-03T23:59:40.600Z" ->
           <<"2", "0", "2", "6", "-", "1", "1", "-", "0", "3", "T", "2", "3", ":", "5", "9", ":", "4", "0", ".", "6", "0", "0", "Z">>
      [] s = "2026-11-04T00:00:05Z" ->
           <<"2", "0", "2", "6", "-", "1", "1", "-", "0", "4", "T", "0", "0", ":", "0", "0", ":", "0", "5", "Z">>
      [] s = "2026-11-04T0:00:05Z" ->
           <<"2", "0", "2", "6", "-", "1", "1", "-", "0", "4", "T", "0", ":", "0", "0", ":", "0", "5", "Z">>
      [] s = "2026-11-04T00:00:40Z" ->
           <<"2", "0", "2", "6", "-", "1", "1", "-", "0", "4", "T", "0", "0", ":", "0", "0", ":", "4", "0", "Z">>
      [] s = "2025-11-04T00:00:10Z" ->
           <<"2", "0", "2", "5", "-", "1", "1", "-", "0", "4", "T", "0", "0", ":", "0", "0", ":", "1", "0", "Z">>
      [] s = "0001-01-01T00:00:00Z" ->
           <<"0", "0", "0", "1", "-", "0", "1", "-", "0", "1", "T", "0", "0", ":", "0", "0", ":", "0", "0", "Z">>
      [] s = "9999-12-31T23:59:59Z" ->
           <<"9", "9", "9", "9", "-", "1", "2", "-", "3", "1", "T", "2", "3", ":", "5", "9", ":", "5", "9", "Z">>
      [] s = "2026-11-03T23:59:41+00:00" ->
           <<"2", "0", "2", "6", "-", "1", "1", "-", "0", "3", "T", "2", "3", ":", "5", "9", ":", "4", "1", "+", "0", "0", ":", "0", "0">>
      [] s = "2026-11-03 23:59:41Z" ->
           <<"2", "0", "2", "6", "-", "1", "1", "-", "0", "3", " ", "2", "3", ":", "5", "9", ":", "4", "1", "Z">>
      [] s = "2026-13-03T23:59:41Z" ->
           <<"2", "0", "2", "6", "-", "1", "3", "-", "0", "3", "T", "2", "3", ":", "5", "9", ":", "4", "1", "Z">>
      [] s = "2026-02-30T23:59:41Z" ->
           <<"2", "0", "2", "6", "-", "0", "2", "-", "3", "0", "T", "2", "3", ":", "5", "9", ":", "4", "1", "Z">>
      [] s = "2026-11-03T23:59:41" ->
           <<"2", "0", "2", "6", "-", "1", "1", "-", "0", "3", "T", "2", "3", ":", "5", "9", ":", "4", "1">>
      [] s = "2026-11-03T23:59:41ZZ" ->
           <<"2", "0", "2", "6", "-", "1", "1", "-", "0", "3", "T", "2", "3", ":", "5", "9", ":", "4", "1", "Z", "Z">>
      [] s = "2026-11-03T24:00:00Z" ->
           <<"2", "0", "2", "6", "-", "1", "1", "-", "0", "3", "T", "2", "4", ":", "0", "0", ":", "0", "0", "Z">>
      [] s = "yesterday" ->
           <<"y", "e", "s", "t", "e", "r", "d", "a", "y">>
      [] s = "" ->
           <<>>
      [] OTHER -> <<"?">>

Digits == {"0", "1", "2", "3", "4", "5", "6", "7", "8", "9"}
DigitVal(c) ==
    CASE c = "0" -> 0 [] c = "1" -> 1 [] c = "2" -> 2 [] c = "3" -> 3
      [] c = "4" -> 4 [] c = "5" -> 5 [] c = "6" -> 6 [] c = "7" -> 7
      [] c = "8" -> 8 [] c = "9" -> 9

IsDigit(cs, i) == i \in DOMAIN cs /\ cs[i] \in Digits
Lit(cs, i, c)  == i \in DOMAIN cs /\ cs[i] = c
Num2(cs, i)    == DigitVal(cs[i]) * 10 + DigitVal(cs[i + 1])

IsLeap(year) == year % 4 = 0 /\ (year % 100 # 0 \/ year % 400 = 0)
DaysIn(month, year) ==
    IF month = 2 THEN (IF IsLeap(year) THEN 29 ELSE 28)
    ELSE IF month \in {4, 6, 9, 11} THEN 30 ELSE 31

\* the day number of a date of the proleptic Gregorian calendar
DaysFromCivil(year, month, day) ==
    LET y   == IF month <= 2 THEN year - 1 ELSE year
        era == y \div 400
        yoe == y - era * 400
        mp  == IF month > 2 THEN month - 3 ELSE month + 9
        doy == (153 * mp + 2) \div 5 + day - 1
        doe == yoe * 365 + yoe \div 4 - yoe \div 100 + doy
    IN  era * 146097 + doe - 719468

\* the zero time.Time: January 1 of year 1, 00:00:00 UTC
ZeroTime == T(DaysFromCivil(1, 1, 1), 0)

(***************************************************************************)
(* time.Parse("2006-01-02T15:04:05Z", s) on the characters cs of s: a      *)
(* four-digit year, two-digit month and day, an hour of one or two digits, *)
(* two-digit minute and second, an optional fraction of a second (which    *)
(* Parse accepts after the seconds although the layout has none), the      *)
(* letter Z and nothing more.  On an error the time returned is the zero   *)
(* time.                                                                   *)
(***************************************************************************)
ParseTimestamp(cs) ==
    LET bad == [ok |-> FALSE, t |-> ZeroTime] IN
    IF ~ (\A i \in 1..4 : IsDigit(cs, i)) THEN bad ELSE
    IF ~ (Lit(cs, 5, "-") /\ IsDigit(cs, 6) /\ IsDigit(cs, 7)) THEN bad ELSE
    IF ~ (Lit(cs, 8, "-") /\ IsDigit(cs, 9) /\ IsDigit(cs, 10)) THEN bad ELSE
    IF ~ (Lit(cs, 11, "T") /\ IsDigit(cs, 12)) THEN bad ELSE
    LET year  == Num2(cs, 1) * 100 + Num2(cs, 3)
        month == Num2(cs, 6)
        day   == Num2(cs, 9)
        hlen  == IF IsDigit(cs, 13) THEN 2 ELSE 1
        hour  == IF hlen = 2 THEN Num2(cs, 12) ELSE DigitVal(cs[12])
        p     == 12 + hlen
    IN
    IF month < 1 \/ month > 12 \/ hour >= 24 THEN bad ELSE
    IF ~ (Lit(cs, p, ":") /\ IsDigit(cs, p + 1) /\ IsDigit(cs, p + 2)) THEN bad ELSE
    IF ~ (Lit(cs, p + 3, ":") /\ IsDigit(cs, p + 4) /\ IsDigit(cs, p + 5)) THEN bad ELSE
    LET min     == Num2(cs, p + 1)
        sec     == Num2(cs, p + 4)
        q       == p + 6
        hasFrac == (Lit(cs, q, ".") \/ Lit(cs, q, ",")) /\ IsDigit(cs, q + 1)
        fracEnd == IF hasFrac
                   THEN CHOOSE e \in (q + 1)..Len(cs) :
                          /\ \A i \in (q + 1)..e : IsDigit(cs, i)
                          /\ ~ IsDigit(cs, e + 1)
                   ELSE q - 1
        fracMs  == LET dg(i) == IF q + i <= fracEnd THEN DigitVal(cs[q + i]) ELSE 0
                   IN  dg(1) * 100 + dg(2) * 10 + dg(3)
        z       == fracEnd + 1
    IN
    IF min >= 60 \/ sec >= 60 THEN bad ELSE
    IF ~ (Lit(cs, z, "Z") /\ Len(cs) = z) THEN bad ELSE
    IF day < 1 \/ day > DaysIn(month, year) THEN bad ELSE
    [ok |-> TRUE,
     t  |-> T(DaysFromCivil(year, month, day),
              ((hour * 60 + min) * 60 + sec) * 1000 + fracMs)]

\* time.Since(t) with the clock reading now: now - t, saturated to a Duration
Since(now, t) ==
    LET borrow == IF now.ms < t.ms THEN 1 ELSE 0
        d      == T(now.days - t.days - borrow, now.ms - t.ms + borrow * MsPerDay)
    IN  IF Before(MaxDuration, d) THEN MaxDuration
        ELSE IF Before(d, MinDuration) THEN MinDuration
        ELSE d

\* request.go:155: the tolerance of verifyTimestamp, in seconds
FreshnessSeconds == 30

\* d.Seconds() < (time.Duration(30) * time.Second).Seconds()
WithinTolerance(d) == Before(d, T(0, FreshnessSeconds * 1000))

(***************************************************************************)
(* The envelopes handed to the core and the targets passed to              *)
(* getTypedRequest.                                                        *)
(***************************************************************************)
Application1 == [ApplicationID |-> "amzn1.ask.skill.1"]
User1        == [UserID |-> "u1", AccessToken |-> ""]

Sessions ==
    { [New |-> TRUE, SessionID |-> "s1", Attributes |-> NilMap,
       Application |-> Application1, User |-> User1],
      [New |-> FALSE, SessionID |-> "s2", Attributes |-> MapOf([k |-> Str("v0")]),
       Application |-> Application1, User |-> User1] }

Context1 ==
    [System |-> [APIAccessToken |-> "tokA", APIEndpoint |-> "https://api",
                 Application |-> Application1,
                 Device |-> [DeviceID |-> "d1", SupportedInterfaces |-> MapOf(NoKeys)],
                 User |-> User1],
     AudioPlayer |-> [Token |-> "tok0", OffsetInMilliseconds |-> 100,
                      PlayerActivity |-> "PLAYING"]]

\* the map o with key set to val
With(o, key, val) ==
    [x \in DOMAIN o \cup {key} |-> IF x = key THEN val ELSE o[x]]

Common(type, ts) ==
    [type |-> Str(type), requestId |-> Str("r1"), timestamp |-> Str(ts),
     locale |-> Str("en-US")]

Launch(ts) == Common("LaunchRequest", ts)

\* the timestamp strings of the payloads; the clock readings are in Clock
Timestamps ==
    { "2026-11-03T23:59:41Z", "2026-11-03T23:59:40Z", "2026-11-03T23:59:39Z",
      "2026-11-03T23:59:40.600Z", "2026-11-04T00:00:05Z", "2026-11-04T0:00:05Z",
      "2026-11-04T00:00:40Z", "2025-11-04T00:00:10Z", "0001-01-01T00:00:00Z",
      "9999-12-31T23:59:59Z", "2026-11-03T23:59:41+00:00", "2026-11-03 23:59:41Z",
      "2026-13-03T23:59:41Z", "2026-02-30T23:59:41Z", "2026-11-03T23:59:41",
      "2026-11-03T23:59:41ZZ", "2026-11-03T24:00:00Z", "yesterday", "" }

TS0 == "2026-11-04T00:00:05Z"

\* 2026-11-04T00:00:10 UTC and 0, 500 and 999 milliseconds
Clock == { T(DaysFromCivil(2026, 11, 4), 10000 + ms) : ms \in {0, 500, 999} }

Payloads ==
    { Obj(Launch(ts)) : ts \in Timestamps } \cup
    { \* well-formed requests of the other variants
      Obj(Common("IntentRequest", TS0) @@
          [intent |-> Obj([name |-> Str("PlayIntent"),
                           slots |-> Obj([song |-> Obj([name |-> Str("song"),
                                                        value |-> Str("x"),
                                                        resolutions |-> Obj([k |-> Num(1)])])]),
                           confirmationStatus |-> Str("NONE")]),
           dialogState |-> Str("STARTED")]),
      Obj(Common("SessionEndedRequest", TS0) @@
          [reason |-> Str("ERROR"),
           error |-> Obj([type |-> Str("E"), message |-> Str("m")])]),
      Obj(Common("AudioPlayer.PlaybackFailed", TS0) @@
          [token |-> Str("tok1"), offsetInMilliseconds |-> Num(1500),
           error |-> Obj([type |-> Str("E"), message |-> Str("m")]),
           currentPlaybackState |-> Obj([token |-> Str("tok1"),
                                         offsetInMilliseconds |-> Num(1400),
                                         playerActivity |-> Str("PLAYING")])]),
      \* an unknown key
      Obj(With(Launch(TS0), "extra", Arr)),
      \* payloads that carry a key spelled like the injected fields
      Obj(With(Launch(TS0), "session", Null)),
      Obj(With(Launch(TS0), "context", Null)),
      Obj(With(Launch(TS0), "Session", Null)),
      Obj(With(Launch(TS0), "session", Obj([sessionId |-> Str("evil")]))),
      Obj(With(Launch(TS0), "session",
               Obj([attributes |-> Obj([k |-> Str("v1")])]))),
      Obj(With(Launch(TS0), "context",
               Obj([System |-> Obj([apiAccessToken |-> Str("evil")])]))),
      Obj(With(With(Launch(TS0), "Session", Null), "session",
               Obj([sessionId |-> Str("evil")]))),
      Obj(With(Launch(TS0), "session", Str("x"))),
      \* payloads that do not have the shape of the request variants
      Obj(With(Launch(TS0), "requestId", Num(5))),
      Obj(With(Launch(TS0), "timestamp", Num(5))),
      Obj(With(Launch(TS0), "offsetInMilliseconds", Str("x"))),
      Obj(With(Launch(TS0), "offsetInMilliseconds", Frac(1))),
      Obj(With(Launch(TS0), "error", Str("x"))),
      Obj([type |-> Str("LaunchRequest")]),
      Obj(NoKeys),
      \* payloads that are no JSON object
      Null, Str("x"), Num(5), Arr, Chan }

\* what a caller passes as requestObj: a pointer to a zero struct of a request
\* variant, a value that has no setContext and setSession methods (nil, a
\* struct passed by value, a pointer to another type), or a nil pointer to a
\* request variant
Targets == RequestVariants \cup {"NotProvider", "NilPointer"}

SessionAddr == "&requestEnvelope.Session"
ContextAddr == "&requestEnvelope.Context"

NoCall == [outcome |-> "none", err |-> "", target |-> "none"]
NoObj  == [type |-> "none", val |-> <<>>]

\* the request side before any call, on envelope env
RequestSideOn(env) ==
    /\ requestEnvelope = env
    /\ envelope0 = env
    /\ requestObj = NoObj
    /\ newObjs = [a \in {"new(Session)", "new(Context)"} |->
                    IF a = "new(Session)" THEN Zero("Session") ELSE Zero("Context")]
    /\ decodeCall = NoCall
    /\ freshCall = [outcome |-> "none", now |-> ZeroTime, logged |-> 0]

Envelope(session, request) ==
    [Version |-> "1.0", Session |-> session, Context |-> Context1, Request |-> request]

InitRequest ==
    \E session \in Sessions, request \in Payloads :
        RequestSideOn(Envelope(session, request))

\* a panic ends the process
Running == decodeCall.outcome # "panic" /\ freshCall.outcome # "panic"

(***************************************************************************)
(* request.go:133-145                                                      *)
(***************************************************************************)
setContext(cr, ctx)     == [cr EXCEPT !.Context = ctx]
setSession(cr, session) == [cr EXCEPT !.Session = session]

\* the memory behind the pointers a request can hold
Memory(env, news) ==
    [a \in {SessionAddr, ContextAddr, "new(Session)", "new(Context)"} |->
       CASE a = SessionAddr -> env.Session
         [] a = ContextAddr -> env.Context
         [] OTHER -> news[a]]

\* the body of getTypedRequest for a target that has the two set methods:
\* obj is the struct behind requestObj, of type t
getTypedRequestBody(env, news, t, obj) ==
    LET data == Marshal(env.Request)
        obj1 == setContext(obj, ContextAddr)
        obj2 == setSession(obj1, SessionAddr)
    IN  Unmarshal(data, t, obj2, Memory(env, news))

getTypedRequest(t) ==
    /\ Running
    /\ IF t \notin RequestVariants
       THEN \* the type assertion, or the method call on a nil pointer, panics
            /\ decodeCall' = [outcome |-> "panic", err |-> "", target |-> t]
            /\ UNCHANGED <<requestEnvelope, requestObj, newObjs>>
       ELSE \E r \in {getTypedRequestBody(requestEnvelope, newObjs, t, Zero(t))} :
            /\ requestObj' = [type |-> t, val |-> r.obj]
            /\ requestEnvelope' = [requestEnvelope EXCEPT
                                     !.Session = r.mem[SessionAddr],
                                     !.Context = r.mem[ContextAddr]]
            /\ newObjs' = [a \in DOMAIN newObjs |-> r.mem[a]]
            /\ decodeCall' = [outcome |-> IF r.err = "" THEN "ok" ELSE "error",
                              err |-> r.err, target |-> t]
    /\ UNCHANGED <<envelope0, freshCall>>
    /\ UNCHANGED respVars

(***************************************************************************)
(* request.go:147-159                                                      *)
(***************************************************************************)
\* the two type assertions of line 149 succeed
HasTimestampString(request) ==
    /\ request.k = "object"
    /\ "timestamp" \in DOMAIN request.o
    /\ request.o["timestamp"].k = "string"

\* lines 151-158, for the timestamp string and the clock reading
verifyTimestampBody(timestampStr, now) ==
    LET parsed == ParseTimestamp(Chars(timestampStr))
    IN  [logged |-> IF parsed.ok THEN 0 ELSE 1,
         result |-> WithinTolerance(Since(now, parsed.t))]

verifyTimestamp(now) ==
    /\ Running
    /\ IF ~ HasTimestampString(requestEnvelope.Request)
       THEN freshCall' = [outcome |-> "panic", now |-> now, logged |-> 0]
       ELSE \E r \in {verifyTimestampBody(requestEnvelope.Request.o["timestamp"].s, now)} :
                freshCall' = [outcome |-> IF r.result THEN "true" ELSE "false",
                              now |-> now, logged |-> r.logged]
    /\ UNCHANGED <<requestEnvelope, envelope0, requestObj, newObjs, decodeCall>>
    /\ UNCHANGED respVars

NextRequest ==
    \/ \E t \in Targets : getTypedRequest(t)
    \/ \E now \in Clock : verifyTimestamp(now)

(***************************************************************************)
(* audioplayer.go.  The builders allocate objects and hand out pointers to *)
(* them.  heap.directive is the sequence of the directive objects          *)
(* allocated so far and heap.metadata that of the AudioItemMetadata        *)
(* objects; a pointer is an index into the sequence of its type, NilPtr    *)
(* the nil pointer.  A DisplayImageObject is reached only through the      *)
(* metadata object that points to it and nothing here changes it once it   *)
(* is built, so the Art and BackgroundImage fields hold the object itself, *)
(* or NoImage for the nil pointer.                                         *)
(***************************************************************************)
NilPtr  == 0
NoImage == [class |-> "nil"]

PlayBehaviors  == {"REPLACE_ALL", "ENQUEUE"}
ClearBehaviors == {"CLEAR_ENQUEUED", "CLEAR_ALL", "BOGUS", ""}
Streams ==
    { [URL |-> "https://x/a.mp3", Token |-> "tok1", ExpectedPreviousToken |-> "tok0",
       OffsetInMilliseconds |-> 1500],
      [URL |-> "https://x/b.mp3", Token |-> "tok2", ExpectedPreviousToken |-> "",
       OffsetInMilliseconds |-> 0] }
Titles         == {"T", "T2"}
Subtitles      == {"S"}
Descriptions   == {"desc", "desc2"}

InitResponse ==
    /\ directives = <<>>
    /\ heap = [directive |-> <<>>, metadata |-> <<>>]
    /\ logged = 0
    /\ calls = <<>>
    /\ metadataCalls = <<>>

\* Response.AddDirective
AddDirective(ds, directive) == Append(ds, directive)

\* the struct literals of lines 66-69, 109-111, 124-127, 84-87, 93-95 and 101-103
PlayDirective(playBehavior) ==
    [class |-> "AudioPlayerPlayDirective",
     Type |-> "AudioPlayer.Play",
     PlayBehavior |-> playBehavior,
     AudioItem |-> [Stream |-> [URL |-> "", Token |-> "", ExpectedPreviousToken |-> "",
                                OffsetInMilliseconds |-> 0],
                    Metadata |-> NilPtr]]

StopDirective ==
    [class |-> "AudioPlayerStopDirective", Type |-> "AudioPlayer.Stop"]

ClearQueueDirective(clearBehavior) ==
    [class |-> "AudioPlayerClearQueueDirective",
     Type |-> "AudioPlayer.ClearQueue",
     ClearBehavior |-> clearBehavior]

AudioItemMetadata(title, subtitle) ==
    [Title |-> title, Subtitle |-> subtitle,
     Art |-> NoImage, BackgroundImage |-> NoImage]

DisplayImageObject(contentDescription) ==
    [class |-> "DisplayImageObject", ContentDescription |-> contentDescription]

\* the pointers the caller holds: those the calls returned
HeldPlayDirectives == { calls[i].ret : i \in { j \in DOMAIN calls : calls[j].op = "Play" } }
HeldMetadata       == { metadataCalls[i].ret : i \in DOMAIN metadataCalls }

NumObjects == Len(heap.directive) + Len(heap.metadata)

\* lines 65-72 with a copy of the directive handed to AddDirective
AddAudioPlayerPlayDirectiveCopied(playBehavior) ==
    /\ NumObjects + 1 < MaxObjects
    /\ \E playDirective \in {Len(heap.directive) + 1} :
         /\ heap' = [heap EXCEPT !.directive = Append(Append(@, PlayDirective(playBehavior)),
                                                      PlayDirective(playBehavior))]
         /\ directives' = AddDirective(directives, playDirective + 1)
         /\ calls' = Append(calls, [op |-> "Play", arg |-> playBehavior,
                                    ret |-> playDirective])
    /\ UNCHANGED <<logged, metadataCalls>>
    /\ UNCHANGED reqVars

\* lines 65-72
AddAudioPlayerPlayDirective(playBehavior) ==
    /\ NumObjects < MaxObjects
    /\ \E playDirective \in {Len(heap.directive) + 1} :
         /\ heap' = [heap EXCEPT !.directive = Append(@, PlayDirective(playBehavior))]
         /\ directives' = AddDirective(directives, playDirective)
         /\ calls' = Append(calls, [op |-> "Play", arg |-> playBehavior,
                                    ret |-> playDirective])
    /\ UNCHANGED <<logged, metadataCalls>>
    /\ UNCHANGED reqVars

\* lines 75-80
SetAudioItemStream(d, url, token, expectedPreviousToken, offsetInMilliseconds) ==
    /\ d \in HeldPlayDirectives
    /\ heap' = [heap EXCEPT
                  !.directive[d].AudioItem.Stream.URL = url,
                  !.directive[d].AudioItem.Stream.Token = token,
                  !.directive[d].AudioItem.Stream.ExpectedPreviousToken =
                      expectedPreviousToken,
                  !.directive[d].AudioItem.Stream.OffsetInMilliseconds =
                      offsetInMilliseconds]
    /\ UNCHANGED <<directives, logged, calls, metadataCalls>>
    /\ UNCHANGED reqVars

\* lines 83-89 with the metadata the directive already has updated in place
SetAudioItemMetadataInPlace(d, title, subtitle) ==
    /\ d \in HeldPlayDirectives
    /\ NumObjects < MaxObjects
    /\ IF heap.directive[d].AudioItem.Metadata = NilPtr
       THEN \E metadata \in {Len(heap.metadata) + 1} :
              /\ heap' = [heap EXCEPT
                            !.metadata = Append(@, AudioItemMetadata(title, subtitle)),
                            !.directive[d].AudioItem.Metadata = metadata]
              /\ metadataCalls' = Append(metadataCalls,
                                         [via |-> d, title |-> title,
                                          subtitle |-> subtitle, ret |-> metadata])
       ELSE \E metadata \in {heap.directive[d].AudioItem.Metadata} :
              /\ heap' = [heap EXCEPT !.metadata[metadata].Title = title,
                                      !.metadata[metadata].Subtitle = subtitle]
              /\ metadataCalls' = Append(metadataCalls,
                                         [via |-> d, title |-> title,
                                          subtitle |-> subtitle, ret |-> metadata])
    /\ UNCHANGED <<directives, logged, calls>>
    /\ UNCHANGED reqVars

\* lines 83-89
SetAudioItemMetadata(d, title, subtitle) ==
    /\ d \in HeldPlayDirectives
    /\ NumObjects < MaxObjects
    /\ \E metadata \in {Len(heap.metadata) + 1} :
         /\ heap' = [heap EXCEPT
                       !.metadata = Append(@, AudioItemMetadata(title, subtitle)),
                       !.directive[d].AudioItem.Metadata = metadata]
         /\ metadataCalls' = Append(metadataCalls,
                                    [via |-> d, title |-> title, subtitle |-> subtitle,
                                     ret |-> metadata])
    /\ UNCHANGED <<directives, logged, calls>>
    /\ UNCHANGED reqVars

\* lines 92-97 with the image stored in BackgroundImage
SetArtImageIntoBackground(m, contentDescription) ==
    /\ m \in HeldMetadata
    /\ heap' = [heap EXCEPT
                  !.metadata[m].BackgroundImage = DisplayImageObject(contentDescription)]
    /\ UNCHANGED <<directives, logged, calls, metadataCalls>>
    /\ UNCHANGED reqVars

\* lines 92-97
SetArtImage(m, contentDescription) ==
    /\ m \in HeldMetadata
    /\ heap' = [heap EXCEPT !.metadata[m].Art = DisplayImageObject(contentDescription)]
    /\ UNCHANGED <<directives, logged, calls, metadataCalls>>
    /\ UNCHANGED reqVars

\* lines 100-105
SetBackgroundImage(m, contentDescription) ==
    /\ m \in HeldMetadata
    /\ heap' = [heap EXCEPT
                  !.metadata[m].BackgroundImage = DisplayImageObject(contentDescription)]
    /\ UNCHANGED <<directives, logged, calls, metadataCalls>>
    /\ UNCHANGED reqVars

\* lines 108-114 without the call of AddDirective
AddAudioPlayerStopDirectiveNotAppended ==
    /\ NumObjects < MaxObjects
    /\ heap' = [heap EXCEPT !.directive = Append(@, StopDirective)]
    /\ calls' = Append(calls, [op |-> "Stop", arg |-> "",
                               ret |-> Len(heap.directive) + 1])
    /\ UNCHANGED <<directives, logged, metadataCalls>>
    /\ UNCHANGED reqVars

\* lines 108-114
AddAudioPlayerStopDirective ==
    /\ NumObjects < MaxObjects
    /\ \E stopDirective \in {Len(heap.directive) + 1} :
         /\ heap' = [heap EXCEPT !.directive = Append(@, StopDirective)]
         /\ directives' = AddDirective(directives, stopDirective)
         /\ calls' = Append(calls, [op |-> "Stop", arg |-> "", ret |-> stopDirective])
    /\ UNCHANGED <<logged, metadataCalls>>
    /\ UNCHANGED reqVars

\* line 121 with || in place of &&
InvalidClearBehaviorEither(clearBehavior) ==
    clearBehavior # "CLEAR_ENQUEUED" \/ clearBehavior # "CLEAR_ALL"

\* line 121: the condition under which line 122 logs
InvalidClearBehavior(clearBehavior) ==
    clearBehavior # "CLEAR_ENQUEUED" /\ clearBehavior # "CLEAR_ALL"

\* lines 119-130
AddAudioPlayerClearQueueDirective(clearBehavior) ==
    /\ NumObjects < MaxObjects
    /\ logged' = IF InvalidClearBehavior(clearBehavior) THEN logged + 1 ELSE logged
    /\ \E clearQueueDirective \in {Len(heap.directive) + 1} :
         /\ heap' = [heap EXCEPT
                       !.directive = Append(@, ClearQueueDirective(clearBehavior))]
         /\ directives' = AddDirective(directives, clearQueueDirective)
         /\ calls' = Append(calls, [op |-> "ClearQueue", arg |-> clearBehavior,
                                    ret |-> clearQueueDirective])
    /\ UNCHANGED metadataCalls
    /\ UNCHANGED reqVars

NextResponse ==
    \/ \E playBehavior \in PlayBehaviors : AddAudioPlayerPlayDirective(playBehavior)
    \/ \E d \in DOMAIN heap.directive, stream \in Streams :
         SetAudioItemStream(d, stream.URL, stream.Token, stream.ExpectedPreviousToken,
                            stream.OffsetInMilliseconds)
    \/ \E d \in DOMAIN heap.directive, title \in Titles, subtitle \in Subtitles :
         SetAudioItemMetadata(d, title, subtitle)
    \/ \E m \in DOMAIN heap.metadata, contentDescription \in Descriptions :
         SetArtImage(m, contentDescription)
    \/ \E m \in DOMAIN heap.metadata, contentDescription \in Descriptions :
         SetBackgroundImage(m, contentDescription)
    \/ AddAudioPlayerStopDirective
    \/ \E clearBehavior \in ClearBehaviors :
         AddAudioPlayerClearQueueDirective(clearBehavior)

(***************************************************************************)
(* The specifications: the request side on an envelope handed to the core, *)
(* the response side on an empty Response.                                 *)
(***************************************************************************)
\* the envelope of a launch request, for the response side
LaunchEnvelope ==
    Envelope(CHOOSE session \in Sessions : session.New, Obj(Launch(TS0)))

Init       == InitRequest /\ InitResponse
InitLaunch == RequestSideOn(LaunchEnvelope) /\ InitResponse

SpecRequest  == Init /\ [][NextRequest]_vars
SpecResponse == InitLaunch /\ [][NextResponse]_vars

(***************************************************************************)
(* Properties of getTypedRequest.                                          *)
(***************************************************************************)

\* C1: whenever getTypedRequest completes successfully, the Session and
\* Context pointers of the target are non-nil and point to the envelope's own
\* Session and Context, so that what they point to equals them by value.
C1_InjectedReferences ==
    decodeCall.outcome = "ok" =>
        /\ requestObj.val.Session # "nil"
        /\ requestObj.val.Context # "nil"
        /\ requestObj.val.Session = SessionAddr
        /\ requestObj.val.Context = ContextAddr
        /\ Memory(requestEnvelope, newObjs)[requestObj.val.Session]
             = requestEnvelope.Session
        /\ Memory(requestEnvelope, newObjs)[requestObj.val.Context]
             = requestEnvelope.Context

\* C2: after a getTypedRequest call that returned an error the target has
\* none of its fields set: it is still the zero struct of its type.
C2_NoPartialObject ==
    decodeCall.outcome = "error" => requestObj.val = Zero(requestObj.type)

\* C4: no call ends in a panic.
C4_NoPanic ==
    decodeCall.outcome # "panic" /\ freshCall.outcome # "panic"

\* C8: getTypedRequest leaves the envelope as it was handed over: Version,
\* Session, Context and Request keep their values.
C8_EnvelopeUnchanged ==
    decodeCall.outcome # "none" => requestEnvelope = envelope0

(***************************************************************************)
(* Properties of verifyTimestamp.                                          *)
(***************************************************************************)

\* An ISO 8601 date and time in the extended format: YYYY-MM-DDThh:mm:ss, an
\* optional fraction of a second, and a time zone designator among zones.
IsoDateTime(cs, zones) ==
    /\ \A i \in {1, 2, 3, 4, 6, 7, 9, 10, 12, 13, 15, 16, 18, 19} : IsDigit(cs, i)
    /\ Lit(cs, 5, "-") /\ Lit(cs, 8, "-") /\ Lit(cs, 11, "T")
    /\ Lit(cs, 14, ":") /\ Lit(cs, 17, ":")
    /\ Num2(cs, 6) \in 1..12
    /\ Num2(cs, 9) \in 1..DaysIn(Num2(cs, 6), Num2(cs, 1) * 100 + Num2(cs, 3))
    /\ Num2(cs, 12) \in 0..23 /\ Num2(cs, 15) \in 0..59 /\ Num2(cs, 18) \in 0..59
    /\ \E z \in 20..(Len(cs) + 1) :
         /\ z > 20 => /\ cs[20] \in {".", ","}
                      /\ z > 21
                      /\ \A i \in 21..(z - 1) : IsDigit(cs, i)
         /\ SubSeq(cs, z, Len(cs)) \in zones

ZoneZ    == << "Z" >>
ZoneZero == << "+", "0", "0", ":", "0", "0" >>

\* the instant an ISO 8601 date and time in UTC denotes
IsoInstant(cs) ==
    LET ms(i) == IF IsDigit(cs, 20 + i) THEN DigitVal(cs[20 + i]) ELSE 0 IN
    T(DaysFromCivil(Num2(cs, 1) * 100 + Num2(cs, 3), Num2(cs, 6), Num2(cs, 9)),
      ((Num2(cs, 12) * 60 + Num2(cs, 15)) * 60 + Num2(cs, 18)) * 1000
        + (IF Len(cs) > 20 /\ cs[20] \in {".", ","}
           THEN ms(1) * 100 + ms(2) * 10 + ms(3) ELSE 0))

\* now - t < 30 seconds, as t + 30 seconds > now
LessThanThirtySecondsAgo(t, now) ==
    LET ms == t.ms + 30 * 1000
        later == IF ms >= MsPerDay THEN T(t.days + 1, ms - MsPerDay) ELSE T(t.days, ms)
    IN  Before(now, later)

\* the hour written with two digits where it is written with one
PadHour(cs) ==
    IF Lit(cs, 11, "T") /\ IsDigit(cs, 12) /\ Lit(cs, 13, ":")
    THEN SubSeq(cs, 1, 11) \o << "0" >> \o SubSeq(cs, 12, Len(cs))
    ELSE cs

TimestampChars == Chars(requestEnvelope.Request.o["timestamp"].s)

\* verifyTimestamp was called on a payload that has a timestamp string
VerifiedTimestamp ==
    freshCall.outcome # "none" /\ HasTimestampString(requestEnvelope.Request)

\* C3: every verifyTimestamp call returns true if the payload's timestamp is
\* an ISO 8601 UTC instant and now minus that instant is less than 30
\* seconds, and returns false in every other case.
C3_FreshIffIsoUtcWithinThirtySeconds ==
    freshCall.outcome # "none" =>
        LET fresh == /\ HasTimestampString(requestEnvelope.Request)
                     /\ IsoDateTime(TimestampChars, {ZoneZ, ZoneZero})
                     /\ LessThanThirtySecondsAgo(IsoInstant(TimestampChars),
                                                 freshCall.now)
        IN  freshCall.outcome = (IF fresh THEN "true" ELSE "false")

\* What verifyTimestamp does on a payload that has a timestamp string: it
\* returns true if and only if the timestamp is an ISO 8601 date and time
\* with the designator Z, its hour written with one or two digits, and now
\* minus that instant is less than 30 seconds; otherwise it returns false.
LayoutFreshness ==
    VerifiedTimestamp =>
        LET cs    == PadHour(TimestampChars)
            fresh == /\ IsoDateTime(cs, {ZoneZ})
                     /\ LessThanThirtySecondsAgo(IsoInstant(cs), freshCall.now)
            ts    == requestEnvelope.Request.o["timestamp"].s
        IN  /\ freshCall.outcome = (IF fresh THEN "true" ELSE "false")
            /\ ts = "2026-11-03T23:59:41Z" => freshCall.outcome = "true"
            /\ ts \in {"2026-11-03T23:59:40Z", "2026-11-03T23:59:39Z", "yesterday"}
                 => freshCall.outcome = "false"

(***************************************************************************)
(* Properties of the directive builders.                                   *)
(***************************************************************************)

\* the directive object a pointer of the Response leads to in heap h, the
\* metadata its AudioItem points to in place of the pointer
Held(h, d) ==
    IF h.directive[d].class = "AudioPlayerPlayDirective"
    THEN [h.directive[d] EXCEPT
            !.AudioItem.Metadata = IF @ = NilPtr THEN NoImage ELSE h.metadata[@]]
    ELSE h.directive[d]

TypeOfCall(op) ==
    CASE op = "Play"       -> "AudioPlayer.Play"
      [] op = "Stop"       -> "AudioPlayer.Stop"
      [] op = "ClearQueue" -> "AudioPlayer.ClearQueue"

\* the positions of the Response's directive sequence the Play calls filled
PlayPositions == { i \in DOMAIN calls : calls[i].op = "Play" }

\* the Metadata object the latest SetAudioItemMetadata call through d returned
LatestMetadata(d) ==
    LET through == { j \in DOMAIN metadataCalls : metadataCalls[j].via = d }
    IN  IF through = {} THEN NilPtr
        ELSE metadataCalls[CHOOSE j \in through : \A k \in through : k <= j].ret

\* C5: the directive sequence holds exactly one directive per add call, in
\* call order, each of the type of its call, and an add call keeps the
\* directives appended before it, their order and their contents.
C5_OneDirectivePerCallInOrder ==
    [][ /\ Len(directives') = Len(calls')
        /\ \A i \in DOMAIN calls' :
             Held(heap', directives'[i]).Type = TypeOfCall(calls'[i].op)
        /\ calls' # calls =>
             /\ Len(calls') = Len(calls) + 1
             /\ \A i \in DOMAIN directives :
                  /\ directives'[i] = directives[i]
                  /\ Held(heap', directives'[i]) = Held(heap, directives[i])
        /\ calls' = calls => directives' = directives ]_vars

\* Play, then ClearQueue, then Stop were added and are held in that order
C5_Witness ==
    /\ Len(calls) = 3
    /\ calls[1].op = "Play" /\ calls[2].op = "ClearQueue" /\ calls[3].op = "Stop"
    /\ [i \in 1..3 |-> Held(heap, directives[i]).Type]
         = << "AudioPlayer.Play", "AudioPlayer.ClearQueue", "AudioPlayer.Stop" >>

\* C6: AddAudioPlayerClearQueueDirective builds a ClearQueue directive with
\* exactly the clearBehavior it was given, appends it and returns it; it logs
\* nothing for CLEAR_ENQUEUED and CLEAR_ALL and once for any other value.
C6_ClearQueueAdvisory ==
    [][ \A clearBehavior \in ClearBehaviors :
          (/\ calls' # calls
           /\ calls'[Len(calls')].op = "ClearQueue"
           /\ calls'[Len(calls')].arg = clearBehavior) =>
              /\ Held(heap', calls'[Len(calls')].ret)
                   = [class |-> "AudioPlayerClearQueueDirective",
                      Type |-> "AudioPlayer.ClearQueue",
                      ClearBehavior |-> clearBehavior]
              /\ directives' = Append(directives, calls'[Len(calls')].ret)
              /\ logged' = logged + (IF clearBehavior \in {"CLEAR_ENQUEUED", "CLEAR_ALL"}
                                     THEN 0 ELSE 1) ]_vars

\* "BOGUS", "" and CLEAR_ALL were given and two of the three calls logged
C6_Witness ==
    /\ { calls[i].arg : i \in { j \in DOMAIN calls : calls[j].op = "ClearQueue" } }
         = {"BOGUS", "", "CLEAR_ALL"}
    /\ logged = 2
    /\ \A i \in { j \in DOMAIN calls : calls[j].op = "ClearQueue" } :
         Held(heap, directives[i]).ClearBehavior = calls[i].arg

\* C7 as stated: an image set through any Metadata object that
\* SetAudioItemMetadata returned for a Play directive is visible in the
\* directive the Response holds at the position of that Play call.
C7_AnyReturnedMetadataVisible ==
    [][ \A m \in DOMAIN heap.metadata, contentDescription \in Descriptions :
          SetArtImage(m, contentDescription) =>
            \A i \in PlayPositions :
              (\E j \in DOMAIN metadataCalls :
                 metadataCalls[j].ret = m /\ metadataCalls[j].via = calls[i].ret) =>
                  Held(heap', directives'[i]).AudioItem.Metadata.Art
                    = DisplayImageObject(contentDescription) ]_vars

\* C7 as amended: each add call returns the very directive it appended, and a
\* later SetAudioItemStream or SetAudioItemMetadata call through the returned
\* Play directive, or SetArtImage or SetBackgroundImage call through the
\* Metadata object its latest SetAudioItemMetadata call returned, is visible
\* in the directive the Response holds at the position of that Play call.
C7_ReturnedDirectiveIsHeld ==
    [][ /\ \A i \in DOMAIN calls' : calls'[i].ret = directives'[i]
        /\ \A i \in PlayPositions :
             /\ \A stream \in Streams :
                  SetAudioItemStream(calls[i].ret, stream.URL, stream.Token,
                                     stream.ExpectedPreviousToken,
                                     stream.OffsetInMilliseconds) =>
                      Held(heap', directives'[i]).AudioItem.Stream = stream
             /\ \A title \in Titles, subtitle \in Subtitles :
                  SetAudioItemMetadata(calls[i].ret, title, subtitle) =>
                      /\ Held(heap', directives'[i]).AudioItem.Metadata.Title = title
                      /\ Held(heap', directives'[i]).AudioItem.Metadata.Subtitle = subtitle
             /\ \A contentDescription \in Descriptions :
                  LatestMetadata(calls[i].ret) # NilPtr =>
                    /\ SetArtImage(LatestMetadata(calls[i].ret), contentDescription) =>
                         Held(heap', directives'[i]).AudioItem.Metadata.Art
                           = DisplayImageObject(contentDescription)
                    /\ SetBackgroundImage(LatestMetadata(calls[i].ret),
                                          contentDescription) =>
                         Held(heap', directives'[i]).AudioItem.Metadata.BackgroundImage
                           = DisplayImageObject(contentDescription) ]_vars

\* a Play directive, another directive appended after it, and a stream and an
\* image set through what the calls returned, held in the first position
C7_Witness ==
    /\ Len(calls) = 2
    /\ calls[1].op = "Play" /\ calls[2].op # "Play"
    /\ Held(heap, directives[1]).AudioItem.Stream.URL = "https://x/a.mp3"
    /\ Held(heap, directives[1]).AudioItem.Metadata
         = [Title |-> "T", Subtitle |-> "S", Art |-> DisplayImageObject("desc"),
            BackgroundImage |-> NoImage]

\* C9: SetArtImage on the Metadata that SetAudioItemMetadata(title, subtitle)
\* returned leaves the directive with that title, that subtitle and an art
\* image of the given description; SetBackgroundImage likewise sets the
\* background image; either leaves the other image unchanged.
C9_MetadataChaining ==
    [][ \A j \in DOMAIN metadataCalls, contentDescription \in Descriptions :
          LET call == metadataCalls[j]
              old  == heap.metadata[call.ret]
              new  == heap'.metadata[call.ret]
              dir  == Held(heap', call.via).AudioItem.Metadata
          IN  /\ SetArtImage(call.ret, contentDescription) =>
                   /\ new = [Title |-> call.title, Subtitle |-> call.subtitle,
                             Art |-> DisplayImageObject(contentDescription),
                             BackgroundImage |-> old.BackgroundImage]
                   /\ LatestMetadata(call.via) = call.ret => dir = new
              /\ SetBackgroundImage(call.ret, contentDescription) =>
                   /\ new = [Title |-> call.title, Subtitle |-> call.subtitle,
                             Art |-> old.Art,
                             BackgroundImage |-> DisplayImageObject(contentDescription)]
                   /\ LatestMetadata(call.via) = call.ret => dir = new ]_vars

\* a directive with the title, the subtitle and both images set by chaining
C9_Witness ==
    \E i \in PlayPositions :
        /\ Len(metadataCalls) = 1
        /\ metadataCalls[1] = [via |-> calls[i].ret, title |-> "T2", subtitle |-> "S",
                               ret |-> 1]
        /\ Held(heap, directives[i]).AudioItem.Metadata
             = [Title |-> "T2", Subtitle |-> "S", Art |-> DisplayImageObject("desc"),
                BackgroundImage |-> DisplayImageObject("desc2")]

\* C10: SetAudioItemMetadata gives the directive metadata with the new title
\* and subtitle and no images, whatever it had before; a Metadata object an
\* earlier call returned is no longer the directive's, and an image set
\* through it does not change the directive.  The call leaves PlayBehavior
\* and Stream unchanged, and SetAudioItemStream leaves the metadata unchanged.
C10_MetadataReplaced ==
    [][ \A d \in HeldPlayDirectives :
          /\ \A title \in Titles, subtitle \in Subtitles :
               SetAudioItemMetadata(d, title, subtitle) =>
                 /\ Held(heap', d).AudioItem.Metadata = AudioItemMetadata(title, subtitle)
                 /\ heap'.directive[d].AudioItem.Metadata \notin HeldMetadata
                 /\ Held(heap', d).PlayBehavior = Held(heap, d).PlayBehavior
                 /\ Held(heap', d).AudioItem.Stream = Held(heap, d).AudioItem.Stream
          /\ \A m \in HeldMetadata, contentDescription \in Descriptions :
               (/\ m # LatestMetadata(d)
                /\ \/ SetArtImage(m, contentDescription)
                   \/ SetBackgroundImage(m, contentDescription)) =>
                     Held(heap', d) = Held(heap, d)
          /\ \A stream \in Streams :
               SetAudioItemStream(d, stream.URL, stream.Token,
                                  stream.ExpectedPreviousToken,
                                  stream.OffsetInMilliseconds) =>
                   Held(heap', d).AudioItem.Metadata = Held(heap, d).AudioItem.Metadata ]_vars

\* metadata with an image was replaced through the same directive: the
\* directive has the new title and no image, and kept its stream
C10_Witness ==
    \E d \in HeldPlayDirectives :
        /\ Len(metadataCalls) = 2
        /\ metadataCalls[1].via = d /\ metadataCalls[2].via = d
        /\ metadataCalls[1].title = "T" /\ metadataCalls[2].title = "T2"
        /\ heap.metadata[metadataCalls[1].ret].Art = DisplayImageObject("desc")
        /\ Held(heap, d).AudioItem.Metadata = AudioItemMetadata("T2", "S")
        /\ Held(heap, d).AudioItem.Stream.Token = "tok1"

====
